---------------------------- MODULE Spec2Model ----------------------------
(***************************************************************************)
(* A model of infx.go: the fusion/classification functions over the two    *)
(* loosely typed metadata documents, the one-pass multi-digest scan, the   *)
(* size formatting and the control flow of main.                           *)
(*                                                                         *)
(* Go strings are modelled as sequences of one-character strings so that   *)
(* strings.Contains, strings.HasPrefix, strings.EqualFold, strconv.Atoi    *)
(* and fmt.Sprintf are computed character by character.                    *)
(***************************************************************************)
EXTENDS Integers, Sequences, FiniteSets, TLC

VARIABLES
    call,       \* the pending call of a classification function with its arguments
    ret,        \* its return value, NoRet before the call
    pc,         \* position of main
    hasArg,     \* len(os.Args) >= 2
    magic,      \* libmagic handle: "unopened", "open", "closed"
    exitCode,   \* process exit status, Running while the process lives
    stdout,     \* what the process printed, in order
    stagesOK,   \* stages of main that returned without error
    failed,     \* the stage whose failure ended the run, "none" so far
    run,        \* the locals of main (fileSize, exif, media, derived fields)
    fd,         \* the file opened by computeHashes: "none", "open", "closed"
    opens,      \* number of os.Open calls made by computeHashes
    data,       \* the bytes of the file
    pos,        \* read offset of the scan
    reads,      \* number of Reads of the scan that returned bytes
    acc,        \* bytes written so far to each hash accumulator
    hashes,     \* computeHashes' first return value
    herr        \* computeHashes' second return value

vars == <<call, ret, pc, hasArg, magic, exitCode, stdout, stagesOK, failed, run,
          fd, opens, data, pos, reads, acc, hashes, herr>>

(***************************************************************************)
(* Bounds of the model.                                                    *)
(***************************************************************************)
MaxTracks == 2      \* longest track list enumerated
MaxFileLen == 3     \* longest file content enumerated for the digest scan

----------------------------------------------------------------------------
(***************************************************************************)
(* Strings.                                                                *)
(***************************************************************************)
UpperLetters == <<"A","B","C","D","E","F","G","H","I","J","K","L","M",
                  "N","O","P","Q","R","S","T","U","V","W","X","Y","Z">>
LowerLetters == <<"a","b","c","d","e","f","g","h","i","j","k","l","m",
                  "n","o","p","q","r","s","t","u","v","w","x","y","z">>
Digits == <<"0","1","2","3","4","5","6","7","8","9">>

ToLowerChar(c) ==
    IF \E i \in 1..26 : UpperLetters[i] = c
    THEN LowerLetters[CHOOSE i \in 1..26 : UpperLetters[i] = c]
    ELSE c

\* strings.ToLower
ToLower(s) == [i \in 1..Len(s) |-> ToLowerChar(s[i])]

\* strings.HasPrefix
HasPrefix(s, prefix) ==
    /\ Len(s) >= Len(prefix)
    /\ SubSeq(s, 1, Len(prefix)) = prefix

\* strings.Contains
Contains(s, substr) ==
    \E i \in 0..(Len(s) - Len(substr)) : SubSeq(s, i + 1, i + Len(substr)) = substr

\* strings.EqualFold, compared rune by rune under simple case folding
RECURSIVE EqualFold(_, _)
EqualFold(s, t) ==
    IF s = <<>> \/ t = <<>> THEN s = t
    ELSE /\ ToLowerChar(Head(s)) = ToLowerChar(Head(t))
         /\ EqualFold(Tail(s), Tail(t))

DigitVal(c) == (CHOOSE i \in 1..10 : Digits[i] = c) - 1
IsDigit(c) == \E i \in 1..10 : Digits[i] = c

RECURSIVE ParseDigits(_, _)
ParseDigits(s, n) ==
    IF s = <<>> THEN n ELSE ParseDigits(Tail(s), n * 10 + DigitVal(Head(s)))

\* strconv.Atoi: an optional sign, then one or more decimal digits
Atoi(s) ==
    LET body == IF s # <<>> /\ Head(s) \in {"+", "-"} THEN Tail(s) ELSE s
        neg == s # <<>> /\ Head(s) = "-"
    IN IF body = <<>> \/ \E i \in 1..Len(body) : ~IsDigit(body[i])
       THEN [err |-> TRUE, n |-> 0]
       ELSE [err |-> FALSE,
             n |-> IF neg THEN 0 - ParseDigits(body, 0) ELSE ParseDigits(body, 0)]

\* decimal digits of a natural number (the %d verb)
RECURSIVE FormatInt(_)
FormatInt(n) ==
    IF n < 10 THEN <<Digits[n + 1]>>
    ELSE FormatInt(n \div 10) \o <<Digits[(n % 10) + 1]>>

(***************************************************************************)
(* String literals of the program.                                         *)
(***************************************************************************)
STR_empty == <<>>
STR_image_gif == <<"i","m","a","g","e","/","g","i","f">>
STR_image_webp == <<"i","m","a","g","e","/","w","e","b","p">>
STR_video_prefix == <<"v","i","d","e","o","/">>
STR_application_unknown ==
    <<"a","p","p","l","i","c","a","t","i","o","n","/","u","n","k","n","o","w","n">>
STR_unknown == <<"u","n","k","n","o","w","n">>
STR_Unknown == <<"U","n","k","n","o","w","n">>
STR_Yes == <<"Y","e","s">>
STR_True == <<"T","r","u","e">>
STR_GIF == <<"G","I","F">>
STR_WebP == <<"W","e","b","P">>
STR_Encrypted == <<"E","n","c","r","y","p","t","e","d">>
STR_Video == <<"V","i","d","e","o">>
STR_General == <<"G","e","n","e","r","a","l">>
STR_0 == <<"0">>
STR_1 == <<"1">>
STR_txt == <<"t","x","t">>
STR_nil == <<"<","n","i","l",">">>
STR_true == <<"t","r","u","e">>
STR_false == <<"f","a","l","s","e">>

(***************************************************************************)
(* interface{} values decoded by encoding/json.  A number is a float64,    *)
(* held in tenths (n = 25 is 2.5).                                         *)
(***************************************************************************)
JStr(s) == [t |-> "string", s |-> s, n |-> 0]
JNum(tenths) == [t |-> "float64", s |-> <<>>, n |-> tenths]
JBool(b) == [t |-> "bool", s |-> <<>>, n |-> IF b THEN 1 ELSE 0]
JNull == [t |-> "nil", s |-> <<>>, n |-> 0]

\* the marker of a key a document does not hold (never a value of a document)
Absent == [t |-> "absent", s |-> <<>>, n |-> 0]

\* a map[string]interface{} built from a choice per key
MakeDoc(choice) ==
    [k \in {x \in DOMAIN choice : choice[x] # Absent} |-> choice[k]]

EmptyDoc == MakeDoc([k \in {} |-> Absent])

\* val, ok := m[key]
Has(m, key) == key \in DOMAIN m
\* s, ok := m[key].(string)
IsString(m, key) == Has(m, key) /\ m[key].t = "string"
\* f, ok := m[key].(float64)
IsFloat(m, key) == Has(m, key) /\ m[key].t = "float64"

\* the %v verb on a float64 ('g' format, shortest representation)
FormatFloat(tenths) ==
    LET a == IF tenths < 0 THEN 0 - tenths ELSE tenths
        sign == IF tenths < 0 THEN <<"-">> ELSE <<>>
        frac == IF a % 10 = 0 THEN <<>> ELSE <<".", Digits[(a % 10) + 1]>>
    IN sign \o FormatInt(a \div 10) \o frac

\* fmt.Sprintf("%v", val)
SprintfV(val) ==
    CASE val.t = "string" -> val.s
      [] val.t = "float64" -> FormatFloat(val.n)
      [] val.t = "bool" -> IF val.n = 1 THEN STR_true ELSE STR_false
      [] OTHER -> STR_nil

(***************************************************************************)
(* The mediainfo document.  root is what media["media"] holds and track    *)
(* what mediaRoot["track"] holds; tracks are the elements of the array,    *)
(* each a JSON object (obj, with fields f) or some other JSON value.       *)
(***************************************************************************)
MediaDoc(root, track, tracks) == [root |-> root, track |-> track, tracks |-> tracks]
TrackObj(f) == [obj |-> TRUE, f |-> f]
TrackNonObj == [obj |-> FALSE, f |-> EmptyDoc]

\* mediaRoot, ok := media["media"].(map[string]interface{})
\* tracks, ok := mediaRoot["track"].([]interface{})
TracksOf(media) ==
    IF media.root = "object" /\ media.track = "array"
    THEN [ok |-> TRUE, tracks |-> media.tracks]
    ELSE [ok |-> FALSE, tracks |-> <<>>]

\* sequences over S of length at most n
SeqUpTo(S, n) == UNION {[1..k -> S] : k \in 0..n}

\* the documents enumerated around a set of track lists: well formed ones
\* and one of each malformed shape
MediaDocsOver(trackLists) ==
    {MediaDoc("object", "array", ts) : ts \in trackLists}
    \cup {MediaDoc("absent", "absent", <<>>), MediaDoc("scalar", "absent", <<>>),
          MediaDoc("object", "absent", <<>>), MediaDoc("object", "scalar", <<>>)}

NoCall == [fn |-> "none"]
NoRet == [done |-> FALSE]
Returned(v) == [done |-> TRUE, v |-> v]

----------------------------------------------------------------------------
(***************************************************************************)
(* The classification functions.                                           *)
(***************************************************************************)

\* a track of the list that is a JSON object whose @type is the string ty
IsTrackOfType(t, ty) == t.obj /\ IsString(t.f, "@type") /\ t.f["@type"].s = ty

\* the for loop of extractDuration
RECURSIVE extractDurationLoop(_)
extractDurationLoop(tracks) ==
    IF tracks = <<>> THEN STR_Unknown
    ELSE LET trackMap == Head(tracks)
         IN IF /\ IsTrackOfType(trackMap, STR_Video)
               /\ Has(trackMap.f, "Duration")
            THEN SprintfV(trackMap.f["Duration"])
            ELSE extractDurationLoop(Tail(tracks))

\* a loop that stops at the first Video track, whether it has a Duration or not
RECURSIVE extractDurationLoopFirstVideo(_)
extractDurationLoopFirstVideo(tracks) ==
    IF tracks = <<>> THEN STR_Unknown
    ELSE LET trackMap == Head(tracks)
         IN IF IsTrackOfType(trackMap, STR_Video)
            THEN IF Has(trackMap.f, "Duration")
                 THEN SprintfV(trackMap.f["Duration"])
                 ELSE STR_Unknown
            ELSE extractDurationLoopFirstVideo(Tail(tracks))

\* extractDuration with the loop that stops at the first Video track
extractDurationFirstVideo(exif, media) ==
    IF Has(exif, "Duration") THEN SprintfV(exif["Duration"])
    ELSE IF TracksOf(media).ok
         THEN extractDurationLoopFirstVideo(TracksOf(media).tracks)
         ELSE STR_Unknown

extractDuration(exif, media) ==
    IF Has(exif, "Duration") THEN SprintfV(exif["Duration"])
    ELSE IF TracksOf(media).ok
         THEN extractDurationLoop(TracksOf(media).tracks)
         ELSE STR_Unknown

\* the EXIF checks of isAnimation
isAnimationExif(exif) ==
    \/ IsFloat(exif, "FrameCount") /\ exif["FrameCount"].n > 10
    \/ IsString(exif, "Animation") /\ exif["Animation"].s \in {STR_Yes, STR_True}
    \/ IsFloat(exif, "Duration") /\ exif["Duration"].n > 0

\* the MediaInfo loop of isAnimation
RECURSIVE isAnimationLoop(_, _, _)
isAnimationLoop(isGIF, isWebP, tracks) ==
    IF tracks = <<>> THEN FALSE
    ELSE LET t == Head(tracks)
             format == IF t.obj /\ IsString(t.f, "Format") THEN t.f["Format"].s
                       ELSE STR_empty
         IN IF /\ t.obj
               /\ \/ isGIF /\ Contains(format, STR_GIF)
                  \/ isWebP /\ Contains(format, STR_WebP)
               /\ \/ IsString(t.f, "FrameCount") /\ t.f["FrameCount"].s # STR_1
                  \/ IsString(t.f, "Duration") /\ t.f["Duration"].s # STR_0
            THEN TRUE
            ELSE isAnimationLoop(isGIF, isWebP, Tail(tracks))

isAnimation(mimeType, exif, media) ==
    LET isGIF == mimeType = STR_image_gif
        isWebP == mimeType = STR_image_webp
    IN IF isAnimationExif(exif) THEN TRUE
       ELSE IF ~TracksOf(media).ok THEN FALSE
       ELSE isAnimationLoop(isGIF, isWebP, TracksOf(media).tracks)

\* the for loop of isEncrypted
RECURSIVE isEncryptedLoop(_)
isEncryptedLoop(tracks) ==
    IF tracks = <<>> THEN FALSE
    ELSE LET trackMap == Head(tracks)
         IN IF /\ trackMap.obj
               /\ IsString(trackMap.f, "Encryption")
               /\ EqualFold(trackMap.f["Encryption"].s, STR_Encrypted)
            THEN TRUE
            ELSE isEncryptedLoop(Tail(tracks))

\* a loop that compares the marker with == instead of strings.EqualFold
RECURSIVE isEncryptedLoopExact(_)
isEncryptedLoopExact(tracks) ==
    IF tracks = <<>> THEN FALSE
    ELSE LET trackMap == Head(tracks)
         IN IF /\ trackMap.obj
               /\ IsString(trackMap.f, "Encryption")
               /\ trackMap.f["Encryption"].s = STR_Encrypted
            THEN TRUE
            ELSE isEncryptedLoopExact(Tail(tracks))

isEncryptedExact(media) ==
    IF ~TracksOf(media).ok THEN FALSE ELSE isEncryptedLoopExact(TracksOf(media).tracks)

isEncrypted(media) ==
    IF ~TracksOf(media).ok THEN FALSE ELSE isEncryptedLoop(TracksOf(media).tracks)

\* the track loop of isVideoWithAudioOnly, carrying the two flags it sets
RECURSIVE videoFlagsLoop(_, _)
videoFlagsLoop(tracks, flags) ==
    IF tracks = <<>> THEN flags
    ELSE LET trackMap == Head(tracks)
             video == IsTrackOfType(trackMap, STR_Video)
             count == /\ IsTrackOfType(trackMap, STR_General)
                      /\ IsString(trackMap.f, "VideoCount")
                      /\ ~Atoi(trackMap.f["VideoCount"].s).err
                      /\ Atoi(trackMap.f["VideoCount"].s).n > 0
         IN videoFlagsLoop(Tail(tracks),
                [hasVideoTrack |-> flags.hasVideoTrack \/ video,
                 hasGeneralVideoCount |-> flags.hasGeneralVideoCount \/ count])

\* a version that forgets the VideoCount of the General track
isVideoWithAudioOnlyNoCount(mimeType, exif, media) ==
    IF ~HasPrefix(mimeType, STR_video_prefix) THEN FALSE
    ELSE LET flags == videoFlagsLoop(TracksOf(media).tracks,
                        [hasVideoTrack |-> FALSE, hasGeneralVideoCount |-> FALSE])
             hasVideoExifKey == Has(exif, "VideoFrameRate") \/ Has(exif, "FrameRate")
         IN ~flags.hasVideoTrack /\ ~hasVideoExifKey

isVideoWithAudioOnly(mimeType, exif, media) ==
    IF ~HasPrefix(mimeType, STR_video_prefix) THEN FALSE
    ELSE LET flags == videoFlagsLoop(TracksOf(media).tracks,
                        [hasVideoTrack |-> FALSE, hasGeneralVideoCount |-> FALSE])
             hasVideoExifKey == Has(exif, "VideoFrameRate") \/ Has(exif, "FrameRate")
         IN ~flags.hasVideoTrack /\ ~flags.hasGeneralVideoCount /\ ~hasVideoExifKey

\* a version that asks the sniffer first
getMimeTypeSnifferFirst(sniff, exif) ==
    IF ~sniff.err /\ sniff.mime # STR_empty THEN sniff.mime
    ELSE IF /\ IsString(exif, "MIMEType")
            /\ exif["MIMEType"].s # STR_empty
            /\ exif["MIMEType"].s # STR_application_unknown
         THEN exif["MIMEType"].s
         ELSE STR_unknown

\* sniff is what magicmime.TypeByFile(filePath) returns: (mime, err)
getMimeType(sniff, exif) ==
    IF /\ IsString(exif, "MIMEType")
       /\ exif["MIMEType"].s # STR_empty
       /\ exif["MIMEType"].s # STR_application_unknown
    THEN exif["MIMEType"].s
    ELSE IF sniff.err \/ sniff.mime = STR_empty THEN STR_unknown
         ELSE sniff.mime

\* the file extension computed in main
fileExtOf(exif) ==
    IF IsString(exif, "FileTypeExtension") /\ exif["FileTypeExtension"].s # STR_empty
    THEN ToLower(exif["FileTypeExtension"].s)
    ELSE STR_txt

----------------------------------------------------------------------------
(***************************************************************************)
(* humanReadableSize.  An int64 byte count can exceed what the checker's   *)
(* integers hold, so it is kept as its base-1000 digits ("limbs"), most    *)
(* significant first, without leading zero limbs: 1500000 is <<1, 500, 0>>.*)
(* In this form bytes / unit drops the last limb, n >= unit asks for more  *)
(* than one limb, and div *= unit appends a zero limb.                     *)
(***************************************************************************)
unit == 1000
units == << <<"K","B">>, <<"M","B">>, <<"G","B">>, <<"T","B">> >>

\* the largest int64, 9223372036854775807
MaxInt64 == <<9, 223, 372, 36, 854, 775, 807>>

DivUnit(n) == IF Len(n) = 1 THEN <<0>> ELSE SubSeq(n, 1, Len(n) - 1)
GeUnit(n) == Len(n) > 1
MulUnit(d) == d \o <<0>>

\* for n := bytes / unit; n >= unit; n /= unit { div *= unit; exp++ }
RECURSIVE hrsLoop(_, _, _)
hrsLoop(n, div, exp) ==
    IF GeUnit(n) THEN hrsLoop(DivUnit(n), MulUnit(div), exp + 1)
    ELSE [div |-> div, exp |-> exp]

\* the value of a limb sequence that fits the checker's integers
RECURSIVE LimbsValue(_, _)
LimbsValue(n, v) == IF n = <<>> THEN v ELSE LimbsValue(Tail(n), v * unit + Head(n))

\* fmt.Sprintf("%.1f", float64(bytes)/float64(div)) for div a power of unit:
\* the quotient rounded to the nearest tenth.  (A quotient exactly half way
\* between two tenths is rounded by its binary representation; the sizes
\* enumerated below hold no such quotient.)
Sprintf1f(bytes, div) ==
    LET m == Len(div) - 1
        whole == LimbsValue(SubSeq(bytes, 1, Len(bytes) - m), 0)
        frac == SubSeq(bytes, Len(bytes) - m + 1, Len(bytes))
        first == frac[1]
        rest == Tail(frac)
        up == \/ first % 100 > 50
              \/ first % 100 = 50 /\ \E i \in 1..Len(rest) : rest[i] # 0
        tenths == whole * 10 + (first \div 100) + (IF up THEN 1 ELSE 0)
    IN FormatInt(tenths \div 10) \o <<".", Digits[(tenths % 10) + 1]>>

\* panic: units[exp] is an index out of range when exp >= len(units)
humanReadableSize(bytes) ==
    IF ~GeUnit(bytes)
    THEN [panic |-> FALSE, s |-> FormatInt(bytes[1]) \o <<" ", "B">>]
    ELSE LET r == hrsLoop(DivUnit(bytes), <<1, 0>>, 0)
         IN IF r.exp + 1 > Len(units)
            THEN [panic |-> TRUE, s |-> <<>>]
            ELSE [panic |-> FALSE,
                  s |-> Sprintf1f(bytes, r.div) \o <<" ">> \o units[r.exp + 1]]

\* limb sequences compared as numbers
RECURSIVE LimbsLeq(_, _)
LimbsLeq(a, b) ==
    IF Len(a) # Len(b) THEN Len(a) < Len(b)
    ELSE IF a = <<>> THEN TRUE
    ELSE IF Head(a) # Head(b) THEN Head(a) < Head(b)
    ELSE LimbsLeq(Tail(a), Tail(b))

\* the limbs enumerated: none ends in 50, so no quotient is half way
LimbValues == {0, 1, 500, 999}

\* the non-negative int64 values over LimbValues
Sizes ==
    {n \in UNION {[1..k -> LimbValues] : k \in 1..Len(MaxInt64)} :
        /\ Len(n) > 1 => n[1] # 0
        /\ LimbsLeq(n, MaxInt64)}

----------------------------------------------------------------------------
(***************************************************************************)
(* Input values enumerated for the classification functions.               *)
(***************************************************************************)
IN_image_png == <<"i","m","a","g","e","/","p","n","g">>
IN_video_mp4 == <<"v","i","d","e","o","/","m","p","4">>
IN_Video_mp4 == <<"V","i","d","e","o","/","m","p","4">>
IN_audio_mp3 == <<"a","u","d","i","o","/","m","p","3">>
IN_video == <<"v","i","d","e","o">>
IN_text_plain == <<"t","e","x","t","/","p","l","a","i","n">>
IN_Audio == <<"A","u","d","i","o">>
IN_yes == <<"y","e","s">>
IN_xGIFy == <<"x","G","I","F","y">>
IN_gif == <<"g","i","f">>
IN_5 == <<"5">>
IN_7 == <<"7">>
IN_12 == <<"1","2">>
IN_plus2 == <<"+","2">>
IN_neg1 == <<"-","1">>
IN_1x == <<"1","x">>
IN_encrypted == <<"e","n","c","r","y","p","t","e","d">>
IN_ENCRYPTED == <<"E","N","C","R","Y","P","T","E","D">>
IN_eNcRyPtEd == <<"e","N","c","R","y","P","t","E","d">>
IN_Encrypt == <<"E","n","c","r","y","p","t">>
IN_EncryptedSp == <<"E","n","c","r","y","p","t","e","d"," ">>

\* the documents over a choice of values per key
DocsOver(choices) ==
    LET values == UNION {choices[k] : k \in DOMAIN choices}
    IN {MakeDoc(c) : c \in {c \in [DOMAIN choices -> values] :
                                \A k \in DOMAIN choices : c[k] \in choices[k]}}

\* track lists over a set of track objects, with a non-object element as well
TrackListsOver(fields) ==
    SeqUpTo({TrackObj(f) : f \in fields} \cup {TrackNonObj}, MaxTracks)

\* what magicmime.TypeByFile can return
SniffOutcomes ==
    [err : BOOLEAN, mime : {STR_empty, STR_image_gif, IN_text_plain}]

MimeExifDocs ==
    DocsOver([MIMEType |-> {Absent, JStr(STR_empty), JStr(STR_application_unknown),
                            JStr(IN_image_png), JStr(IN_video_mp4), JStr(STR_image_gif),
                            JStr(STR_unknown), JNum(10), JBool(TRUE), JNull}])

DurationExifDocs ==
    DocsOver([Duration |-> {Absent, JStr(IN_12), JNum(25), JNum(-30), JBool(FALSE), JNull}])

DurationTrackFields ==
    {MakeDoc([k \in {"@type", "Duration"} |->
                IF k = "@type" THEN ty ELSE du]) :
        ty \in {Absent, JStr(STR_Video), JStr(IN_Audio)},
        du \in {Absent, JStr(IN_7), JNum(15)}}

AnimationMimes == {STR_image_gif, STR_image_webp, IN_image_png, IN_video_mp4}

AnimationExifDocs ==
    DocsOver([FrameCount |-> {Absent, JNum(10), JNum(50), JStr(IN_5)},
              Animation |-> {Absent, JStr(STR_Yes), JStr(IN_yes)},
              Duration |-> {Absent, JNum(0), JNum(25)}])

AnimationTrackFields ==
    {MakeDoc([Format |-> fo, FrameCount |-> ev[1], Duration |-> ev[2]]) :
        fo \in {Absent, JStr(IN_xGIFy), JStr(STR_WebP), JStr(IN_gif)},
        ev \in {<<Absent, Absent>>, <<JStr(STR_1), JStr(STR_0)>>,
                <<JStr(IN_12), Absent>>, <<Absent, JStr(IN_5)>>,
                <<JNum(120), Absent>>}}

EncryptionTrackFields ==
    {MakeDoc([k \in {"@type", "Encryption"} |->
                IF k = "@type" THEN ty ELSE en]) :
        ty \in {Absent, JStr(STR_Video)},
        en \in {Absent, JStr(STR_Encrypted), JStr(IN_encrypted), JStr(IN_ENCRYPTED),
                JStr(IN_eNcRyPtEd), JStr(IN_Encrypt), JStr(IN_EncryptedSp),
                JNum(10), JBool(TRUE)}}

AudioOnlyMimes == {IN_video_mp4, IN_Video_mp4, IN_video, IN_audio_mp3}

AudioOnlyExifDocs ==
    DocsOver([VideoFrameRate |-> {Absent, JNum(250)}, FrameRate |-> {Absent, JNull}])

AudioOnlyTrackFields ==
    {MakeDoc([k \in {"@type", "VideoCount"} |->
                IF k = "@type" THEN ty ELSE vc]) :
        ty \in {JStr(STR_Video), JStr(STR_General), JStr(IN_Audio)},
        vc \in {Absent, JStr(STR_1), JStr(STR_0), JStr(IN_plus2), JStr(IN_neg1),
                JStr(IN_1x), JNum(10)}}

(***************************************************************************)
(* main is not running while a classification function is exercised alone. *)
(***************************************************************************)
Running == -1
Nil == [nil |-> TRUE]
NoRun == [set |-> FALSE]
AlgNames == {"md5", "sha1", "sha256", "sha512", "sha3-256", "sha3-512",
             "blake2b-256", "blake2b-512"}

mainVars == <<pc, hasArg, magic, exitCode, stdout, stagesOK, failed, run,
              fd, opens, data, pos, reads, acc, hashes, herr>>

MainIdle ==
    /\ pc = "idle"
    /\ hasArg = FALSE
    /\ magic = "unopened"
    /\ exitCode = Running
    /\ stdout = <<>>
    /\ stagesOK = {}
    /\ failed = "none"
    /\ run = NoRun
    /\ fd = "none"
    /\ opens = 0
    /\ data = <<>>
    /\ pos = 0
    /\ reads = 0
    /\ acc = [a \in AlgNames |-> <<>>]
    /\ hashes = Nil
    /\ herr = FALSE

Pending(fn) == call.fn = fn /\ ~ret.done

InitMime ==
    /\ call \in [fn : {"getMimeType"}, sniff : SniffOutcomes, exif : MimeExifDocs]
    /\ ret = NoRet
    /\ MainIdle

CallGetMimeType ==
    /\ Pending("getMimeType")
    /\ ret' = Returned(getMimeType(call.sniff, call.exif))
    /\ UNCHANGED <<call, mainVars>>

SpecMime == InitMime /\ [][CallGetMimeType]_vars

InitDuration ==
    /\ call \in [fn : {"extractDuration"}, exif : DurationExifDocs,
                 media : MediaDocsOver(TrackListsOver(DurationTrackFields))]
    /\ ret = NoRet
    /\ MainIdle

CallExtractDuration ==
    /\ Pending("extractDuration")
    /\ ret' = Returned(extractDuration(call.exif, call.media))
    /\ UNCHANGED <<call, mainVars>>

SpecDuration == InitDuration /\ [][CallExtractDuration]_vars

InitAnimation ==
    /\ call \in [fn : {"isAnimation"}, mimeType : AnimationMimes,
                 exif : AnimationExifDocs,
                 media : MediaDocsOver(TrackListsOver(AnimationTrackFields))]
    /\ ret = NoRet
    /\ MainIdle

CallIsAnimation ==
    /\ Pending("isAnimation")
    /\ ret' = Returned(isAnimation(call.mimeType, call.exif, call.media))
    /\ UNCHANGED <<call, mainVars>>

SpecAnimation == InitAnimation /\ [][CallIsAnimation]_vars

InitEncrypted ==
    /\ call \in [fn : {"isEncrypted"},
                 media : MediaDocsOver(TrackListsOver(EncryptionTrackFields))]
    /\ ret = NoRet
    /\ MainIdle

CallIsEncrypted ==
    /\ Pending("isEncrypted")
    /\ ret' = Returned(isEncrypted(call.media))
    /\ UNCHANGED <<call, mainVars>>

SpecEncrypted == InitEncrypted /\ [][CallIsEncrypted]_vars

InitAudioOnly ==
    /\ call \in [fn : {"isVideoWithAudioOnly"}, mimeType : AudioOnlyMimes,
                 exif : AudioOnlyExifDocs,
                 media : MediaDocsOver(TrackListsOver(AudioOnlyTrackFields))]
    /\ ret = NoRet
    /\ MainIdle

CallIsVideoWithAudioOnly ==
    /\ Pending("isVideoWithAudioOnly")
    /\ ret' = Returned(isVideoWithAudioOnly(call.mimeType, call.exif, call.media))
    /\ UNCHANGED <<call, mainVars>>

SpecAudioOnly == InitAudioOnly /\ [][CallIsVideoWithAudioOnly]_vars

InitSize ==
    /\ call \in [fn : {"humanReadableSize"}, bytes : Sizes]
    /\ ret = NoRet
    /\ MainIdle

CallHumanReadableSize ==
    /\ Pending("humanReadableSize")
    /\ ret' = Returned(humanReadableSize(call.bytes))
    /\ UNCHANGED <<call, mainVars>>

SpecSize == InitSize /\ [][CallHumanReadableSize]_vars

----------------------------------------------------------------------------
(***************************************************************************)
(* Properties of the classification functions.                             *)
(***************************************************************************)
Done(fn) == call.fn = fn /\ ret.done

\* positions of the track list of a document, none when it has no usable list
TrackIdx(media) == 1..Len(TracksOf(media).tracks)
TrackAt(media, i) == TracksOf(media).tracks[i]

\* the tag document declares a usable MIME type
DeclaresMime(exif) ==
    /\ "MIMEType" \in DOMAIN exif
    /\ exif["MIMEType"].t = "string"
    /\ exif["MIMEType"].s \notin {STR_empty, STR_application_unknown}

\* C3: a MIMEType of the tag document that is a non-empty string other than
\* "application/unknown" is the resolved MIME type whatever the sniffer says;
\* otherwise the resolved type is the sniffer's result when it succeeds with a
\* non-empty string, and "unknown" when it fails or returns the empty string.
C3_MimePrecedence ==
    Done("getMimeType") =>
        /\ DeclaresMime(call.exif) => ret.v = call.exif["MIMEType"].s
        /\ ~DeclaresMime(call.exif) /\ ~call.sniff.err /\ call.sniff.mime # STR_empty
              => ret.v = call.sniff.mime
        /\ ~DeclaresMime(call.exif) /\ (call.sniff.err \/ call.sniff.mime = STR_empty)
              => ret.v = STR_unknown

\* the placeholder of the tag document gives way to the sniffer's image/gif
C3_Witness ==
    /\ Done("getMimeType")
    /\ "MIMEType" \in DOMAIN call.exif
    /\ call.exif["MIMEType"] = JStr(STR_application_unknown)
    /\ call.sniff = [err |-> FALSE, mime |-> STR_image_gif]
    /\ ret.v = STR_image_gif

\* Video tracks of the list that carry a Duration field
VideoWithDuration(media) ==
    {i \in TrackIdx(media) :
        /\ IsTrackOfType(TrackAt(media, i), STR_Video)
        /\ "Duration" \in DOMAIN TrackAt(media, i).f}

VideoTracks(media) ==
    {i \in TrackIdx(media) : IsTrackOfType(TrackAt(media, i), STR_Video)}

Least(S) == CHOOSE i \in S : \A j \in S : i <= j

\* C2 as stated: without a tag Duration the result is the string form of the
\* Duration of the first Video track, and "Unknown" when that yields no value.
C2_FirstVideoTrack ==
    Done("extractDuration") =>
        ret.v = IF "Duration" \in DOMAIN call.exif
                THEN SprintfV(call.exif["Duration"])
                ELSE IF VideoTracks(call.media) = {} THEN STR_Unknown
                ELSE LET t == TrackAt(call.media, Least(VideoTracks(call.media)))
                     IN IF "Duration" \in DOMAIN t.f THEN SprintfV(t.f["Duration"])
                        ELSE STR_Unknown

\* C2 amended: the tag Duration's string form when the tag document has one;
\* otherwise the string form of the Duration of the first track that has
\* @type "Video" and a Duration field; "Unknown" when there is no such track.
C2_FirstVideoTrackWithDuration ==
    Done("extractDuration") =>
        ret.v = IF "Duration" \in DOMAIN call.exif
                THEN SprintfV(call.exif["Duration"])
                ELSE IF VideoWithDuration(call.media) = {} THEN STR_Unknown
                ELSE SprintfV(TrackAt(call.media,
                                Least(VideoWithDuration(call.media))).f["Duration"])

\* no tag Duration; a Video track without Duration precedes one with 1.5
C2_Witness ==
    /\ Done("extractDuration")
    /\ "Duration" \notin DOMAIN call.exif
    /\ VideoTracks(call.media) # {}
    /\ Least(VideoTracks(call.media)) \notin VideoWithDuration(call.media)
    /\ VideoWithDuration(call.media) # {}
    /\ TrackAt(call.media, Least(VideoWithDuration(call.media))).f["Duration"] = JNum(15)
    /\ ret.v = <<"1", ".", "5">>

\* the tag document's only animation evidence is a numeric Duration > 0
OnlyDurationEvidence(exif) ==
    /\ "Duration" \in DOMAIN exif
    /\ exif["Duration"].t = "float64"
    /\ exif["Duration"].n > 0
    /\ ~("FrameCount" \in DOMAIN exif /\ exif["FrameCount"].t = "float64"
            /\ exif["FrameCount"].n > 10)
    /\ ~("Animation" \in DOMAIN exif /\ exif["Animation"].t = "string"
            /\ exif["Animation"].s \in {STR_Yes, STR_True})

\* C1: with a numeric Duration > 0 as the tag document's only evidence,
\* isAnimation is true for image/gif and image/webp and false for every other
\* MIME type, whatever the track document holds.
C1_DurationRuleGated ==
    Done("isAnimation") /\ OnlyDurationEvidence(call.exif) =>
        ret.v = (call.mimeType \in {STR_image_gif, STR_image_webp})

\* the three tag-document rules as the specification states them
TagRuleFires(mimeType, exif) ==
    \/ "FrameCount" \in DOMAIN exif /\ exif["FrameCount"].t = "float64"
          /\ exif["FrameCount"].n > 10
    \/ "Animation" \in DOMAIN exif /\ exif["Animation"].t = "string"
          /\ exif["Animation"].s \in {STR_Yes, STR_True}
    \/ "Duration" \in DOMAIN exif /\ exif["Duration"].t = "float64"
          /\ exif["Duration"].n > 0
          /\ mimeType \in {STR_image_gif, STR_image_webp}

FieldIsStringOtherThan(t, key, s) ==
    key \in DOMAIN t.f /\ t.f[key].t = "string" /\ t.f[key].s # s

\* a track whose Format matches the MIME type and that shows frames or time
TrackShowsAnimation(mimeType, media) ==
    \E i \in TrackIdx(media) :
        LET t == TrackAt(media, i)
        IN /\ t.obj
           /\ "Format" \in DOMAIN t.f /\ t.f["Format"].t = "string"
           /\ \/ mimeType = STR_image_gif /\ Contains(t.f["Format"].s, STR_GIF)
              \/ mimeType = STR_image_webp /\ Contains(t.f["Format"].s, STR_WebP)
           /\ \/ FieldIsStringOtherThan(t, "FrameCount", STR_1)
              \/ FieldIsStringOtherThan(t, "Duration", STR_0)

\* C5: when none of the tag-document rules fires, isAnimation is true exactly
\* when a track whose Format contains "GIF" (MIME image/gif) or "WebP" (MIME
\* image/webp) has a string FrameCount other than "1" or a string Duration
\* other than "0"; a missing or malformed track list yields false.
C5_TrackRule ==
    Done("isAnimation") /\ ~TagRuleFires(call.mimeType, call.exif) =>
        ret.v = TrackShowsAnimation(call.mimeType, call.media)

\* the track rule decides isAnimation whenever the EXIF checks of the code,
\* whose Duration check does not look at the MIME type, find nothing
TrackRuleAfterExifChecks ==
    Done("isAnimation") /\ ~isAnimationExif(call.exif) =>
        ret.v = TrackShowsAnimation(call.mimeType, call.media)

\* C6: isEncrypted is true exactly when some track of the list, at any
\* position and of any type, has an Encryption field that is a string equal
\* to "Encrypted" up to case; without a usable track list it is false.
C6_EncryptedIffMarker ==
    Done("isEncrypted") =>
        ret.v = \E i \in TrackIdx(call.media) :
                    LET t == TrackAt(call.media, i)
                    IN /\ t.obj
                       /\ "Encryption" \in DOMAIN t.f
                       /\ t.f["Encryption"].t = "string"
                       /\ ToLower(t.f["Encryption"].s) = ToLower(STR_Encrypted)

\* the marker in another case, on the second track, the first being unmarked
C6_Witness ==
    /\ Done("isEncrypted")
    /\ Len(TracksOf(call.media).tracks) = 2
    /\ TrackAt(call.media, 1) = TrackObj(EmptyDoc)
    /\ "Encryption" \in DOMAIN TrackAt(call.media, 2).f
    /\ TrackAt(call.media, 2).f["Encryption"] = JStr(IN_eNcRyPtEd)
    /\ ret.v = TRUE

\* a string that parses as a decimal integer greater than zero
IsPositiveIntString(s) ==
    LET body == IF s # <<>> /\ s[1] = "+" THEN Tail(s) ELSE s
    IN /\ body # <<>>
       /\ \A i \in 1..Len(body) : body[i] \in {Digits[d] : d \in 1..10}
       /\ \E i \in 1..Len(body) : body[i] # "0"

\* C4: isVideoWithAudioOnly is true exactly when the MIME type starts with
\* "video/", no track has @type "Video", no "General" track has a VideoCount
\* string that parses as an integer > 0, and the tag document has neither a
\* VideoFrameRate nor a FrameRate field.
C4_AudioOnlyIffNoVideoSignal ==
    Done("isVideoWithAudioOnly") =>
        ret.v = /\ Len(call.mimeType) >= 6
                /\ SubSeq(call.mimeType, 1, 6) = <<"v","i","d","e","o","/">>
                /\ VideoTracks(call.media) = {}
                /\ ~\E i \in TrackIdx(call.media) :
                       LET t == TrackAt(call.media, i)
                       IN /\ IsTrackOfType(t, STR_General)
                          /\ "VideoCount" \in DOMAIN t.f
                          /\ t.f["VideoCount"].t = "string"
                          /\ IsPositiveIntString(t.f["VideoCount"].s)
                /\ DOMAIN call.exif \cap {"VideoFrameRate", "FrameRate"} = {}

\* a video/mp4 file whose only track is a General track counting no video
C4_Witness ==
    /\ Done("isVideoWithAudioOnly")
    /\ call.mimeType = IN_video_mp4
    /\ call.exif = EmptyDoc
    /\ Len(TracksOf(call.media).tracks) = 1
    /\ IsTrackOfType(TrackAt(call.media, 1), STR_General)
    /\ "VideoCount" \in DOMAIN TrackAt(call.media, 1).f
    /\ TrackAt(call.media, 1).f["VideoCount"] = JStr(STR_0)
    /\ ret.v = TRUE

\* the exponent k of the claim: the largest with 1000^k <= n
UnitExponent(bytes) == Len(bytes) - 1

\* C9: humanReadableSize returns a result for every size n >= 0: "<n> B"
\* below 1000, and otherwise n / 1000^k with one decimal and the k-th unit of
\* KB, MB, GB, TB, for k the largest exponent with 1000^k <= n.
C9_SizeFormat ==
    Done("humanReadableSize") =>
        /\ ~ret.v.panic
        /\ UnitExponent(call.bytes) = 0
              => ret.v.s = FormatInt(call.bytes[1]) \o <<" ", "B">>
        /\ UnitExponent(call.bytes) \in 1..4
              => ret.v.s = Sprintf1f(call.bytes,
                                     <<1>> \o [i \in 1..UnitExponent(call.bytes) |-> 0])
                           \o <<" ">> \o units[UnitExponent(call.bytes)]

\* C9 below 10^15 bytes, where the four units suffice
SizeFormatBelowPB ==
    Done("humanReadableSize") /\ UnitExponent(call.bytes) <= 4 =>
        /\ ~ret.v.panic
        /\ UnitExponent(call.bytes) = 0
              => ret.v.s = FormatInt(call.bytes[1]) \o <<" ", "B">>
        /\ UnitExponent(call.bytes) >= 1
              => ret.v.s = Sprintf1f(call.bytes,
                                     <<1>> \o [i \in 1..UnitExponent(call.bytes) |-> 0])
                           \o <<" ">> \o units[UnitExponent(call.bytes)]

----------------------------------------------------------------------------
(***************************************************************************)
(* main and computeHashes, one action per step.                            *)
(***************************************************************************)
Bytes == {0, 1}
FileContents == SeqUpTo(Bytes, MaxFileLen)

\* what os.Stat reports.  The scan below is modelled on short contents; the
\* size is drawn on its own so that every branch of humanReadableSize is met.
MainSizes == {<<0>>, <<1, 500>>, <<1, 0, 0, 0, 0, 0>>}

MainExifDocs ==
    {EmptyDoc,
     MakeDoc([MIMEType |-> JStr(IN_video_mp4), Duration |-> JNum(25),
              FileTypeExtension |-> JStr(<<"M","P","4">>)]),
     MakeDoc([MIMEType |-> JStr(STR_application_unknown), Duration |-> Absent,
              FileTypeExtension |-> Absent])}

MainMediaDocs ==
    {MediaDoc("absent", "absent", <<>>),
     MediaDoc("object", "array",
        <<TrackObj(MakeDoc([k \in {"@type", "Format", "FrameCount", "Encryption"} |->
            CASE k = "@type" -> JStr(STR_General)
              [] k = "Format" -> JStr(STR_GIF)
              [] k = "FrameCount" -> JStr(IN_12)
              [] OTHER -> JStr(IN_encrypted)]))>>)}

MainSniffOutcomes ==
    {[err |-> TRUE, mime |-> STR_empty], [err |-> FALSE, mime |-> STR_image_gif]}

Diagnostic(text) == [kind |-> "diagnostic", text |-> text]

\* fmt.Printf(...); os.Exit(1): the process ends at once and the deferred
\* magicmime.Close() is not run
Exit1(stage, text) ==
    /\ stdout' = Append(stdout, Diagnostic(text))
    /\ failed' = stage
    /\ exitCode' = 1
    /\ pc' = "exited"

\* a panic unwinds main: the deferred magicmime.Close() runs, the trace goes
\* to stderr and the process ends with status 2
Panic ==
    /\ magic' = "closed"
    /\ failed' = "panic"
    /\ exitCode' = 2
    /\ pc' = "exited"

\* hex.EncodeToString(h.Sum(nil)): the digest of algorithm a over the bytes
\* written to its accumulator
Digest(a, written) == [alg |-> a, of |-> written]

\* io.MultiWriter(writers...).Write(chunk); a hash.Hash never returns an error
MultiWrite(accs, chunk) == [a \in DOMAIN accs |-> accs[a] \o chunk]

\* a result map that misses the two accumulators added after the literal
ResultsWithoutBlake(accs) ==
    [a \in DOMAIN accs \ {"blake2b-256", "blake2b-512"} |-> Digest(a, accs[a])]

\* for name, h := range hashes { results[name] = hex.EncodeToString(h.Sum(nil)) }
Results(accs) == [a \in DOMAIN accs |-> Digest(a, accs[a])]

Init ==
    /\ call = NoCall
    /\ ret = NoRet
    /\ pc = "start"
    /\ hasArg \in BOOLEAN
    /\ magic = "unopened"
    /\ exitCode = Running
    /\ stdout = <<>>
    /\ stagesOK = {}
    /\ failed = "none"
    /\ run = NoRun
    /\ fd = "none"
    /\ opens = 0
    /\ data \in FileContents
    /\ pos = 0
    /\ reads = 0
    /\ acc = [a \in AlgNames |-> <<>>]
    /\ hashes = Nil
    /\ herr = FALSE

hashVars == <<fd, opens, data, pos, reads, acc, hashes, herr>>

MagicOpen ==
    /\ pc = "start"
    /\ \/ /\ Exit1("libmagic", "Failed to initialize libmagic")
          /\ UNCHANGED magic
       \/ /\ magic' = "open"
          /\ pc' = "args"
          /\ UNCHANGED <<exitCode, stdout, failed>>
    /\ UNCHANGED <<call, ret, hasArg, stagesOK, run, hashVars>>

CheckArgs ==
    /\ pc = "args"
    /\ IF ~hasArg
       THEN Exit1("args", "Usage: mediainfo-cli <file>")
       ELSE pc' = "stat" /\ UNCHANGED <<exitCode, stdout, failed>>
    /\ UNCHANGED <<call, ret, hasArg, magic, stagesOK, run, hashVars>>

Stat ==
    /\ pc = "stat"
    /\ \/ /\ Exit1("stat", "Error getting file size")
          /\ UNCHANGED <<stagesOK, run>>
       \/ \E size \in MainSizes :
            /\ run' = [set |-> TRUE, fileSize |-> size]
            /\ stagesOK' = stagesOK \cup {"stat"}
            /\ pc' = "exif"
            /\ UNCHANGED <<exitCode, stdout, failed>>
    /\ UNCHANGED <<call, ret, hasArg, magic, hashVars>>

\* getExifData fails when exiftool fails, prints no JSON or an empty array
GetExifData ==
    /\ pc = "exif"
    /\ \/ /\ Exit1("exif", "Error reading EXIF")
          /\ UNCHANGED <<stagesOK, run>>
       \/ \E doc \in MainExifDocs :
            /\ run' = [set |-> TRUE, fileSize |-> run.fileSize, exif |-> doc]
            /\ stagesOK' = stagesOK \cup {"exif"}
            /\ pc' = "mediainfo"
            /\ UNCHANGED <<exitCode, stdout, failed>>
    /\ UNCHANGED <<call, ret, hasArg, magic, hashVars>>

\* a main that goes on with an empty document when mediainfo fails
GetMediaInfoIgnoringError ==
    /\ pc = "mediainfo"
    /\ \/ /\ run' = [set |-> TRUE, fileSize |-> run.fileSize, exif |-> run.exif,
                     media |-> MediaDoc("absent", "absent", <<>>)]
          /\ pc' = "derive"
          /\ UNCHANGED <<exitCode, stdout, failed, stagesOK>>
       \/ \E doc \in MainMediaDocs :
            /\ run' = [set |-> TRUE, fileSize |-> run.fileSize, exif |-> run.exif,
                       media |-> doc]
            /\ stagesOK' = stagesOK \cup {"mediainfo"}
            /\ pc' = "derive"
            /\ UNCHANGED <<exitCode, stdout, failed>>
    /\ UNCHANGED <<call, ret, hasArg, magic, hashVars>>

\* getMediaInfo fails when mediainfo fails or prints no JSON object
GetMediaInfo ==
    /\ pc = "mediainfo"
    /\ \/ /\ Exit1("mediainfo", "Error reading MediaInfo")
          /\ UNCHANGED <<stagesOK, run>>
       \/ \E doc \in MainMediaDocs :
            /\ run' = [set |-> TRUE, fileSize |-> run.fileSize, exif |-> run.exif,
                       media |-> doc]
            /\ stagesOK' = stagesOK \cup {"mediainfo"}
            /\ pc' = "derive"
            /\ UNCHANGED <<exitCode, stdout, failed>>
    /\ UNCHANGED <<call, ret, hasArg, magic, hashVars>>

\* the derived fields, from fileSize := fileInfo.Size() to videoAudioOnly
Derive ==
    /\ pc = "derive"
    /\ \E sniff \in MainSniffOutcomes :
        LET human == humanReadableSize(run.fileSize)
            mimeType == getMimeType(sniff, run.exif)
        IN IF human.panic
           THEN Panic /\ UNCHANGED <<run, stdout>>
           ELSE /\ run' = [set |-> TRUE,
                           fileSize |-> run.fileSize,
                           exif |-> run.exif,
                           media |-> run.media,
                           fileSizeHuman |-> human.s,
                           duration |-> extractDuration(run.exif, run.media),
                           isEnc |-> isEncrypted(run.media),
                           mimeType |-> mimeType,
                           fileExt |-> fileExtOf(run.exif),
                           isAnim |-> isAnimation(mimeType, run.exif, run.media),
                           videoAudioOnly |->
                               isVideoWithAudioOnly(mimeType, run.exif, run.media)]
                /\ pc' = "hash_open"
                /\ UNCHANGED <<magic, exitCode, stdout, failed>>
    /\ UNCHANGED <<call, ret, hasArg, stagesOK, hashVars>>

\* computeHashes up to os.Open; blake2b.New256(nil) and New512(nil) cannot
\* fail, a nil key being always accepted
HashOpen ==
    /\ pc = "hash_open"
    /\ acc' = [a \in AlgNames |-> <<>>]
    /\ \/ /\ herr' = TRUE
          /\ hashes' = Nil
          /\ pc' = "hash_ret"
          /\ UNCHANGED <<fd, opens>>
       \/ /\ fd' = "open"
          /\ opens' = opens + 1
          /\ pc' = "hash_copy"
          /\ UNCHANGED <<herr, hashes>>
    /\ UNCHANGED <<call, ret, hasArg, magic, exitCode, stdout, stagesOK, failed, run,
                   data, pos, reads>>

\* one round of io.Copy: a Read of the file, then the Write of what was read
HashCopy ==
    /\ pc = "hash_copy"
    /\ \/ \* Read returns n > 0 bytes
          \E n \in 1..(Len(data) - pos) :
            /\ acc' = MultiWrite(acc, SubSeq(data, pos + 1, pos + n))
            /\ pos' = pos + n
            /\ reads' = reads + 1
            /\ UNCHANGED <<pc, fd, hashes, herr>>
       \/ \* Read returns io.EOF: the copy is complete
          /\ pos = Len(data)
          /\ pc' = "hash_sum"
          /\ UNCHANGED <<acc, pos, reads, fd, hashes, herr>>
       \/ \* Read returns n >= 0 bytes and an error: the bytes are written,
          \* computeHashes returns (nil, err) and the deferred file.Close() runs
          \E n \in 0..(Len(data) - pos) :
            /\ acc' = MultiWrite(acc, SubSeq(data, pos + 1, pos + n))
            /\ pos' = pos + n
            /\ reads' = IF n > 0 THEN reads + 1 ELSE reads
            /\ herr' = TRUE
            /\ hashes' = Nil
            /\ fd' = "closed"
            /\ pc' = "hash_ret"
    /\ UNCHANGED <<call, ret, hasArg, magic, exitCode, stdout, stagesOK, failed, run,
                   opens, data>>

\* the accumulators are finalized, computeHashes returns (results, nil) and
\* the deferred file.Close() runs
HashSum ==
    /\ pc = "hash_sum"
    /\ hashes' = Results(acc)
    /\ fd' = "closed"
    /\ pc' = "hash_ret"
    /\ UNCHANGED <<call, ret, hasArg, magic, exitCode, stdout, stagesOK, failed, run,
                   opens, data, pos, reads, acc, herr>>

\* hashes, err := computeHashes(filePath); if err != nil { ... os.Exit(1) }
HashReturn ==
    /\ pc = "hash_ret"
    /\ IF herr
       THEN Exit1("hashes", "Error computing file hashes") /\ UNCHANGED stagesOK
       ELSE /\ stagesOK' = stagesOK \cup {"hashes"}
            /\ pc' = "marshal"
            /\ UNCHANGED <<exitCode, stdout, failed>>
    /\ UNCHANGED <<call, ret, hasArg, magic, run, hashVars>>

\* result := MediaMetadata{...}; resultJson, err := json.Marshal(result)
Marshal ==
    /\ pc = "marshal"
    /\ \/ Exit1("marshal", "Failed to marshal result")
       \/ pc' = "print" /\ UNCHANGED <<exitCode, stdout, failed>>
    /\ UNCHANGED <<call, ret, hasArg, magic, stagesOK, run, hashVars>>

\* fmt.Println(string(resultJson))
PrintRecord ==
    /\ pc = "print"
    /\ stdout' = Append(stdout, [kind |-> "record", fields |-> run, hashes |-> hashes])
    /\ pc' = "return"
    /\ UNCHANGED <<call, ret, hasArg, magic, exitCode, stagesOK, failed, run, hashVars>>

\* main returns: the deferred magicmime.Close() runs and the process exits 0
Return ==
    /\ pc = "return"
    /\ magic' = "closed"
    /\ exitCode' = 0
    /\ pc' = "exited"
    /\ UNCHANGED <<call, ret, hasArg, stdout, stagesOK, failed, run, hashVars>>

Next ==
    \/ MagicOpen \/ CheckArgs \/ Stat \/ GetExifData \/ GetMediaInfo \/ Derive
    \/ HashOpen \/ HashCopy \/ HashSum \/ HashReturn \/ Marshal \/ PrintRecord \/ Return

Spec == Init /\ [][Next]_vars

----------------------------------------------------------------------------
(***************************************************************************)
(* Properties of computeHashes and main.                                   *)
(***************************************************************************)
HashesReturned == herr \/ hashes # Nil

\* C7: computeHashes either fails and returns no digest map, or returns a map
\* with exactly one entry for each of the eight algorithms, each the digest of
\* the whole file; the accumulators are fed the same bytes in the same order
\* from a single pass over the file, they are finalized only once the whole
\* file is consumed, and the file opened for the scan is closed on return.
C7_DigestAllOrNothing ==
    /\ herr => hashes = Nil
    /\ hashes # Nil =>
          /\ ~herr
          /\ DOMAIN hashes = AlgNames
          /\ Cardinality(DOMAIN hashes) = 8
          /\ \A a \in AlgNames : hashes[a] = [alg |-> a, of |-> data]
          /\ pos = Len(data)
    /\ \A a \in AlgNames : acc[a] = SubSeq(data, 1, pos)
    /\ opens <= 1
    /\ HashesReturned => fd # "open"
    /\ fd = "closed" => HashesReturned /\ opens = 1

\* a file of three bytes read in more than one chunk and digested whole
C7_Witness ==
    /\ hashes # Nil
    /\ Len(data) = 3
    /\ reads >= 2
    /\ fd = "closed"
    /\ pc = "hash_ret"

RecordPrinted == \E i \in 1..Len(stdout) : stdout[i].kind = "record"

FourStages == {"stat", "exif", "mediainfo", "hashes"}

\* the stages main runs, in order
StageOrder == <<"args", "stat", "exif", "mediainfo", "hashes">>
StageIndex(st) == CHOOSE i \in 1..Len(StageOrder) : StageOrder[i] = st

\* C8: the record is printed only after file stat, both metadata retrievals
\* and the digest computation have succeeded; when the argument is missing or
\* one of these stages fails, the run ends with a non-zero status after a
\* diagnostic, no later stage has run and no record is printed.
C8_FailFast ==
    /\ RecordPrinted => FourStages \subseteq stagesOK /\ hasArg /\ hashes # Nil
    /\ exitCode = 0 => RecordPrinted
    /\ failed \in {StageOrder[i] : i \in 1..Len(StageOrder)} =>
          /\ pc = "exited"
          /\ exitCode \notin {Running, 0}
          /\ stdout # <<>> /\ stdout[Len(stdout)].kind = "diagnostic"
          /\ ~RecordPrinted
          /\ \A i \in 1..Len(StageOrder) :
                i >= StageIndex(failed) => StageOrder[i] \notin stagesOK
          /\ failed # "hashes" => opens = 0 /\ ~HashesReturned
    /\ ~hasArg => stagesOK = {} /\ opens = 0

\* the run stopped at a failing mediainfo, after stat and exiftool succeeded
C8_Witness ==
    /\ failed = "mediainfo"
    /\ stagesOK = {"stat", "exif"}
    /\ exitCode = 1
    /\ ~RecordPrinted

\* C10: in every run that opened the type-sniffer library, the library is
\* closed when the process has terminated, whatever the exit path.
C10_SnifferClosedOnEveryExit ==
    pc = "exited" => magic # "open"

\* the library is closed on the two paths that unwind main: its return after
\* the record is printed, and a panic
SnifferClosedWhenMainUnwinds ==
    pc = "exited" /\ failed \in {"none", "panic"} => magic = "closed"

====
